---- MODULE Spec2Model ----
(***************************************************************************)
(* Model of the Monte Carlo IRL engine of app.py: sample_normal_dist,      *)
(* monte_carlo_simulation and generate_radar_chart, run on a catalog of    *)
(* MethodTechnologyService rows (database_setup.py).                       *)
(*                                                                         *)
(* Numbers.  Attribute values and normal draws are integers.  Weights are  *)
(* counted in slider steps of 0.1 (1.0 is 10), so total_irl is an integer  *)
(* in the same unit and the unit cancels in total_irl/normalization_factor.*)
(* A float that results from a division is the record [num, den] in lowest *)
(* terms with den > 0; den = 0 encodes the IEEE results of a division by   *)
(* zero: 0/0 is NaN, n/0 is +inf or -inf.  Rounding is not modelled.       *)
(***************************************************************************)
EXTENDS Integers, Sequences, FiniteSets

VARIABLES
    services,            \* catalog: method_id -> MethodTechnologyService row (absent: .first() is None)
    selected_methods,    \* the selection, in catalog order
    method_weights,      \* method_id -> weight vector (absent: no entry)
    n_simulations,       \* trial count
    pc,                  \* position in the running function
    irl_scores,          \* list of appended scores
    total_irl,           \* the trial's accumulator
    method_idx,          \* position of the inner "for method in selected_methods"
    weights,             \* local variable "weights" of monte_carlo_simulation
    cost_score, maturity_score, integration_score, interoperability_score,
    bound,               \* names of the locals that have been assigned
    err,                 \* exception that ended the call ("none" when none)
    avg_values,          \* generate_radar_chart: category -> list of midpoints
    values,              \* generate_radar_chart: category -> mean
    min_val, max_val,    \* sample_normal_dist: arguments
    mean_val,            \* sample_normal_dist: (min_val + max_val) / 2
    normal,              \* sample_normal_dist: the value np.random.normal returned
    clipped              \* sample_normal_dist: the value returned

vars == <<services, selected_methods, method_weights, n_simulations, pc,
          irl_scores, total_irl, method_idx, weights, cost_score,
          maturity_score, integration_score, interoperability_score, bound,
          err, avg_values, values, min_val, max_val, mean_val, normal, clipped>>

inputs == <<services, selected_methods, method_weights, n_simulations>>
mc_locals == <<irl_scores, total_irl, method_idx, weights, cost_score,
               maturity_score, integration_score, interoperability_score,
               bound, err>>
radar_locals == <<avg_values, values>>
sampler_locals == <<min_val, max_val, mean_val, normal, clipped>>

---------------------------------------------------------------------------
(* Bounds of the model *)

NumMethods == 2
MaxTrials == 2
DrawMargin == 1

Methods == 1..NumMethods

(* populate_data draws every attribute bound from uniform(3, 5) ... uniform(7, 9). *)
MinValue == 3
MaxValue == 9
AttrValues == MinValue..MaxValue

(* Values np.random.normal may return: below, inside and above every range. *)
DrawSet == (MinValue - DrawMargin)..(MaxValue + DrawMargin)

---------------------------------------------------------------------------
(* Floats *)

Abs(x) == IF x < 0 THEN -x ELSE x

Sign(x) == IF x < 0 THEN -1 ELSE IF x > 0 THEN 1 ELSE 0

RECURSIVE GCD(_, _)
GCD(a, b) == IF b = 0 THEN a ELSE GCD(b, a % b)

NaN == [num |-> 0, den |-> 0]

(* n / d for exactly represented n and d, as numpy's float64 divides. *)
truediv(n, d) ==
    IF d = 0 THEN [num |-> Sign(n), den |-> 0]
    ELSE LET g == GCD(Abs(n), Abs(d))
         IN [num |-> (Sign(d) * n) \div g, den |-> Abs(d) \div g]

float_add(a, b) == truediv(a.num * b.den + b.num * a.den, a.den * b.den)

isfinite(a) == a.den # 0

(* IEEE ==: NaN equals nothing, itself included. *)
float_eq(a, b) == a # NaN /\ b # NaN /\ a = b

---------------------------------------------------------------------------
(* Catalog rows and weight vectors *)

Range(lo, hi) == [min |-> lo, max |-> hi]

(* A MethodTechnologyService row: one (min, max) pair per attribute. *)
Service(c, m, g, p) ==
    [cost |-> c, maturity |-> m, integration |-> g, interoperability |-> p]

PointRow == Service(Range(4, 4), Range(4, 4), Range(4, 4), Range(4, 4))
WideRow == Service(Range(3, 5), Range(7, 7), Range(5, 5), Range(5, 5))
Rows == {PointRow, WideRow}

(* The dict built per selected method from its four sliders (0.0 .. 2.0 in  *)
(* steps of 0.1, default 1.0), in units of 0.1.                             *)
WeightVector(c, m, g, p) ==
    [cost_w |-> c, maturity_w |-> m, integration_w |-> g, interoperability_w |-> p]

ZeroWeights == WeightVector(0, 0, 0, 0)
DefaultWeights == WeightVector(10, 10, 10, 10)
SkewedWeights == WeightVector(20, 0, 5, 0)
WeightVectors == {ZeroWeights, DefaultWeights, SkewedWeights}

PartialFns(D, R) == UNION {[S -> R] : S \in SUBSET D}

(* The checked methods, appended in the order of session.query(Method).all(). *)
Ascending(S) ==
    CHOOSE s \in [1..Cardinality(S) -> S] :
        \A j, k \in 1..Cardinality(S) : j < k => s[j] < s[k]

ElemsOf(s) == {s[k] : k \in 1..Len(s)}

---------------------------------------------------------------------------
(* sample_normal_dist *)

np_clip_NoUpper(x, lo, hi) == IF x < lo THEN lo ELSE x

(* np.clip(x, lo, hi) = minimum(maximum(x, lo), hi) *)
np_clip(x, lo, hi) ==
    LET m == IF x < lo THEN lo ELSE x
    IN IF m > hi THEN hi ELSE m

(* sample_normal_dist with x the value np.random.normal(mean_val, std_dev) gave *)
sample_normal_dist(lo, hi, x) == np_clip(x, lo, hi)

---------------------------------------------------------------------------
(* Initial states: the arguments of one call, nothing run yet *)

categories == {"Maturity", "Interoperability", "Integration", "Cost"}

NoLocals ==
    /\ irl_scores = <<>>
    /\ total_irl = 0
    /\ method_idx = 0
    /\ weights = ZeroWeights
    /\ cost_score = 0
    /\ maturity_score = 0
    /\ integration_score = 0
    /\ interoperability_score = 0
    /\ bound = {}
    /\ err = "none"
    /\ avg_values = [c \in categories |-> <<>>]
    /\ values = [c \in categories |-> NaN]

NoSampler ==
    /\ min_val = 0
    /\ max_val = 0
    /\ mean_val = truediv(0, 2)
    /\ normal = 0
    /\ clipped = 0

(* The catalog holds a row for any subset of the methods.  The selection is *)
(* any subset of the methods in catalog order (lines 48-50); a weights     *)
(* entry exists only for selected methods (line 56) and, for a caller      *)
(* other than the UI, possibly not for all of them.                        *)
Init ==
    /\ services \in PartialFns(Methods, Rows)
    /\ \E S \in SUBSET Methods :
         /\ selected_methods = Ascending(S)
         /\ method_weights \in PartialFns(S, WeightVectors)
    /\ n_simulations \in 0..MaxTrials
    /\ pc = "idle"
    /\ NoLocals
    /\ NoSampler

---------------------------------------------------------------------------
(* monte_carlo_simulation(selected_methods, method_weights, n_simulations) *)

method == selected_methods[method_idx]

(* session.query(MethodTechnologyService).filter_by(method_id=...).first() *)
has_service(m) == m \in DOMAIN services

(* irl_scores = [] *)
mc_call ==
    /\ pc = "idle"
    /\ irl_scores' = <<>>
    /\ pc' = "for_trial"
    /\ UNCHANGED <<inputs, total_irl, method_idx, weights, cost_score,
                   maturity_score, integration_score, interoperability_score,
                   bound, err, radar_locals, sampler_locals>>

more_trials_OneMore == Len(irl_scores) <= n_simulations

(* for _ in range(n_simulations): one iteration per score appended so far *)
more_trials == Len(irl_scores) < n_simulations

(* total_irl = 0, and the inner loop starts *)
mc_trial ==
    /\ pc = "for_trial"
    /\ more_trials
    /\ total_irl' = 0
    /\ method_idx' = 1
    /\ pc' = "for_method"
    /\ UNCHANGED <<inputs, irl_scores, weights, cost_score, maturity_score,
                   integration_score, interoperability_score, bound, err,
                   radar_locals, sampler_locals>>

(* return np.array(irl_scores) *)
mc_return ==
    /\ pc = "for_trial"
    /\ ~more_trials
    /\ pc' = "returned"
    /\ UNCHANGED <<inputs, mc_locals, radar_locals, sampler_locals>>

(* if service: is false, the method is passed over *)
mc_skip ==
    /\ pc = "for_method"
    /\ method_idx <= Len(selected_methods)
    /\ ~has_service(method)
    /\ method_idx' = method_idx + 1
    /\ UNCHANGED <<inputs, pc, irl_scores, total_irl, weights, cost_score,
                   maturity_score, integration_score, interoperability_score,
                   bound, err, radar_locals, sampler_locals>>

mc_cost ==
    /\ pc = "for_method"
    /\ method_idx <= Len(selected_methods)
    /\ has_service(method)
    /\ \E x \in DrawSet :
         cost_score' = sample_normal_dist(services[method].cost.min,
                                          services[method].cost.max, x)
    /\ bound' = bound \cup {"cost_score"}
    /\ pc' = "maturity"
    /\ UNCHANGED <<inputs, irl_scores, total_irl, method_idx, weights,
                   maturity_score, integration_score, interoperability_score,
                   err, radar_locals, sampler_locals>>

mc_maturity ==
    /\ pc = "maturity"
    /\ \E x \in DrawSet :
         maturity_score' = sample_normal_dist(services[method].maturity.min,
                                              services[method].maturity.max, x)
    /\ bound' = bound \cup {"maturity_score"}
    /\ pc' = "integration"
    /\ UNCHANGED <<inputs, irl_scores, total_irl, method_idx, weights,
                   cost_score, integration_score, interoperability_score,
                   err, radar_locals, sampler_locals>>

mc_integration ==
    /\ pc = "integration"
    /\ \E x \in DrawSet :
         integration_score' = sample_normal_dist(services[method].integration.min,
                                                 services[method].integration.max, x)
    /\ bound' = bound \cup {"integration_score"}
    /\ pc' = "interoperability"
    /\ UNCHANGED <<inputs, irl_scores, total_irl, method_idx, weights,
                   cost_score, maturity_score, interoperability_score,
                   err, radar_locals, sampler_locals>>

mc_interoperability ==
    /\ pc = "interoperability"
    /\ \E x \in DrawSet :
         interoperability_score' =
             sample_normal_dist(services[method].interoperability.min,
                                services[method].interoperability.max, x)
    /\ bound' = bound \cup {"interoperability_score"}
    /\ pc' = "weights"
    /\ UNCHANGED <<inputs, irl_scores, total_irl, method_idx, weights,
                   cost_score, maturity_score, integration_score,
                   err, radar_locals, sampler_locals>>

(* weights["cost_w"] * cost_score + ... + weights["interoperability_w"] * ... *)
weighted_score(w) ==
    w.cost_w * cost_score + w.maturity_w * maturity_score
    + w.integration_w * integration_score
    + w.interoperability_w * interoperability_score

(* weights = method_weights[method.method_id]; total_irl += weighted_score *)
mc_accumulate ==
    /\ pc = "weights"
    /\ method \in DOMAIN method_weights
    /\ weights' = method_weights[method]
    /\ bound' = bound \cup {"weights"}
    /\ total_irl' = total_irl + weighted_score(method_weights[method])
    /\ method_idx' = method_idx + 1
    /\ pc' = "for_method"
    /\ UNCHANGED <<inputs, irl_scores, cost_score, maturity_score,
                   integration_score, interoperability_score, err,
                   radar_locals, sampler_locals>>

mc_key_error_Skip ==
    /\ pc = "weights"
    /\ method \notin DOMAIN method_weights
    /\ method_idx' = method_idx + 1
    /\ pc' = "for_method"
    /\ UNCHANGED <<inputs, irl_scores, total_irl, weights, cost_score,
                   maturity_score, integration_score, interoperability_score,
                   bound, err, radar_locals, sampler_locals>>

(* method_weights[method.method_id] with no such key *)
mc_key_error ==
    /\ pc = "weights"
    /\ method \notin DOMAIN method_weights
    /\ err' = "KeyError"
    /\ pc' = "raised"
    /\ UNCHANGED <<inputs, irl_scores, total_irl, method_idx, weights,
                   cost_score, maturity_score, integration_score,
                   interoperability_score, bound, radar_locals, sampler_locals>>

(* sum(weights.values()) *)
weights_sum(w) == w.cost_w + w.maturity_w + w.integration_w + w.interoperability_w

normalization_factor_PerService ==
    weights_sum(weights) * Cardinality({m \in ElemsOf(selected_methods) : has_service(m)})

(* sum(weights.values()) * len(selected_methods) *)
normalization_factor == weights_sum(weights) * Len(selected_methods)

(* irl_scores.append(total_irl / normalization_factor) *)
mc_normalize ==
    /\ pc = "for_method"
    /\ method_idx > Len(selected_methods)
    /\ "weights" \in bound
    /\ irl_scores' = Append(irl_scores, truediv(total_irl, normalization_factor))
    /\ pc' = "for_trial"
    /\ UNCHANGED <<inputs, total_irl, method_idx, weights, cost_score,
                   maturity_score, integration_score, interoperability_score,
                   bound, err, radar_locals, sampler_locals>>

(* "weights" is read on line 96 without ever having been assigned *)
mc_unbound_error ==
    /\ pc = "for_method"
    /\ method_idx > Len(selected_methods)
    /\ "weights" \notin bound
    /\ err' = "UnboundLocalError"
    /\ pc' = "raised"
    /\ UNCHANGED <<inputs, irl_scores, total_irl, method_idx, weights,
                   cost_score, maturity_score, integration_score,
                   interoperability_score, bound, radar_locals, sampler_locals>>

---------------------------------------------------------------------------
(* generate_radar_chart(selected_methods), up to the values it plots *)

(* (service.x_min + service.x_max) / 2 *)
midpoint(r) == truediv(r.min + r.max, 2)

RECURSIVE float_sum(_)
float_sum(xs) ==
    IF xs = <<>> THEN truediv(0, 1)
    ELSE float_add(float_sum(SubSeq(xs, 1, Len(xs) - 1)), xs[Len(xs)])

np_mean_OverSelection(xs) ==
    LET s == float_sum(xs) IN truediv(s.num, s.den * Len(selected_methods))

(* np.mean(xs): the sum over the number of elements; nan for an empty list *)
np_mean(xs) ==
    LET s == float_sum(xs) IN truediv(s.num, s.den * Len(xs))

(* avg_values = {category: [] for category in categories} *)
radar_call ==
    /\ pc = "idle"
    /\ avg_values' = [c \in categories |-> <<>>]
    /\ method_idx' = 1
    /\ pc' = "radar_for"
    /\ UNCHANGED <<inputs, irl_scores, total_irl, weights, cost_score,
                   maturity_score, integration_score, interoperability_score,
                   bound, err, values, sampler_locals>>

radar_collect ==
    /\ pc = "radar_for"
    /\ method_idx <= Len(selected_methods)
    /\ has_service(method)
    /\ avg_values' =
         [Maturity |-> Append(avg_values["Maturity"],
                              midpoint(services[method].maturity)),
          Interoperability |-> Append(avg_values["Interoperability"],
                                      midpoint(services[method].interoperability)),
          Integration |-> Append(avg_values["Integration"],
                                 midpoint(services[method].integration)),
          Cost |-> Append(avg_values["Cost"], midpoint(services[method].cost))]
    /\ method_idx' = method_idx + 1
    /\ UNCHANGED <<inputs, pc, irl_scores, total_irl, weights, cost_score,
                   maturity_score, integration_score, interoperability_score,
                   bound, err, values, sampler_locals>>

radar_skip ==
    /\ pc = "radar_for"
    /\ method_idx <= Len(selected_methods)
    /\ ~has_service(method)
    /\ method_idx' = method_idx + 1
    /\ UNCHANGED <<inputs, pc, irl_scores, total_irl, weights, cost_score,
                   maturity_score, integration_score, interoperability_score,
                   bound, err, radar_locals, sampler_locals>>

(* values = [np.mean(avg_values[cat]) for cat in categories] *)
radar_mean ==
    /\ pc = "radar_for"
    /\ method_idx > Len(selected_methods)
    /\ values' = [c \in categories |-> np_mean(avg_values[c])]
    /\ pc' = "radar_done"
    /\ UNCHANGED <<inputs, irl_scores, total_irl, method_idx, weights,
                   cost_score, maturity_score, integration_score,
                   interoperability_score, bound, err, avg_values,
                   sampler_locals>>

---------------------------------------------------------------------------
(* The engine: either function called on the chosen arguments *)

Next ==
    \/ mc_call
    \/ mc_trial
    \/ mc_return
    \/ mc_skip
    \/ mc_cost
    \/ mc_maturity
    \/ mc_integration
    \/ mc_interoperability
    \/ mc_accumulate
    \/ mc_key_error
    \/ mc_normalize
    \/ mc_unbound_error
    \/ radar_call
    \/ radar_collect
    \/ radar_skip
    \/ radar_mean

Spec == Init /\ [][Next]_vars

---------------------------------------------------------------------------
(* sample_normal_dist(min_val, max_val) on its own, over every range *)

SamplerInit ==
    /\ services = <<>>
    /\ selected_methods = <<>>
    /\ method_weights = <<>>
    /\ n_simulations = 0
    /\ NoLocals
    /\ pc = "sample_call"
    /\ min_val \in AttrValues
    /\ max_val \in AttrValues
    /\ min_val <= max_val
    /\ mean_val = truediv(0, 2)
    /\ normal = 0
    /\ clipped = 0

(* mean_val = (min_val + max_val) / 2 *)
sampler_mean ==
    /\ pc = "sample_call"
    /\ mean_val' = truediv(min_val + max_val, 2)
    /\ pc' = "sample_draw"
    /\ UNCHANGED <<inputs, mc_locals, radar_locals, min_val, max_val, normal,
                   clipped>>

(* np.random.normal(mean_val, std_dev): any real *)
sampler_draw ==
    /\ pc = "sample_draw"
    /\ normal' \in DrawSet
    /\ pc' = "sample_clip"
    /\ UNCHANGED <<inputs, mc_locals, radar_locals, min_val, max_val, mean_val,
                   clipped>>

(* return np.clip(..., min_val, max_val) *)
sampler_clip ==
    /\ pc = "sample_clip"
    /\ clipped' = sample_normal_dist(min_val, max_val, normal)
    /\ pc' = "sample_done"
    /\ UNCHANGED <<inputs, mc_locals, radar_locals, min_val, max_val, mean_val,
                   normal>>

SamplerNext == sampler_mean \/ sampler_draw \/ sampler_clip

SamplerSpec == SamplerInit /\ [][SamplerNext]_vars

---------------------------------------------------------------------------
(* Properties *)

selection == ElemsOf(selected_methods)

(* The selected methods whose attribute-range row is in the catalog. *)
with_service == {m \in selection : has_service(m)}

mc_ended == pc \in {"returned", "raised"}

last_score == irl_scores[Len(irl_scores)]

(* The last element of the selection that has a row. *)
last_with_service ==
    LET K == {k \in 1..Len(selected_methods) : has_service(selected_methods[k])}
    IN selected_methods[CHOOSE k \in K : \A j \in K : j <= k]

last_selected == selected_methods[Len(selected_methods)]

C2_Clipping ==
    pc = "sample_done" =>
        /\ min_val <= clipped /\ clipped <= max_val
        /\ normal < min_val => clipped = min_val
        /\ normal > max_val => clipped = max_val
        /\ (min_val <= normal /\ normal <= max_val) => clipped = normal

C2_Witness ==
    /\ pc = "sample_done"
    /\ min_val < max_val
    /\ normal > max_val
    /\ clipped = max_val

(* C3, as claimed: with an empty selection neither function returns a      *)
(* result; each fails, and with the EmptySelection error.                  *)
C3_EmptySelection ==
    selected_methods = <<>> =>
        /\ pc \notin {"returned", "radar_done"}
        /\ pc = "raised" => err = "EmptySelection"

(* C4, as claimed: with n_simulations >= 1 and a selected method that has  *)
(* no weights entry, with or without a row, the call fails and returns no  *)
(* sequence (any exception is counted as the failure).                     *)
C4_Original ==
    (mc_ended /\ n_simulations >= 1
        /\ \E m \in selection : m \notin DOMAIN method_weights)
        => pc = "raised"

(* C4, amended: with n_simulations >= 1 and a selected method that has a   *)
(* row but no weights entry, the call raises KeyError before any score is  *)
(* appended; and KeyError is raised for no other reason.                   *)
C4_Amended ==
    /\ (mc_ended /\ n_simulations >= 1
          /\ \E m \in with_service : m \notin DOMAIN method_weights)
         => (pc = "raised" /\ err = "KeyError" /\ irl_scores = <<>>)
    /\ err = "KeyError"
         => (n_simulations >= 1
             /\ \E m \in with_service : m \notin DOMAIN method_weights)

C4_Witness ==
    /\ pc = "raised"
    /\ err = "KeyError"
    /\ \E m \in selection : ~has_service(m) /\ m \notin DOMAIN method_weights
    /\ \E m \in with_service : m \notin DOMAIN method_weights

(* C5, as claimed: every appended score is a finite number (all catalog    *)
(* ranges are finite), whatever non-negative weights were supplied.        *)
C5_Finite == \A k \in 1..Len(irl_scores) : isfinite(irl_scores[k])

(* C6, as claimed: the appended score is the trial's total divided by the  *)
(* weight sum of the last element of the selection times the number of     *)
(* selected methods (stated here only where both that method and the one   *)
(* the code divides by have a nonzero weight sum).                         *)
C6_Original ==
    (pc = "for_trial" /\ irl_scores # <<>>
        /\ last_selected \in DOMAIN method_weights
        /\ weights_sum(method_weights[last_selected]) > 0
        /\ weights_sum(weights) > 0)
        => last_score = truediv(total_irl,
                                weights_sum(method_weights[last_selected])
                                * Len(selected_methods))

(* C6, amended: the appended score is the trial's total divided by the     *)
(* weight sum of the last selected method that has a row, times the number *)
(* of all selected methods.                                                *)
C6_Amended ==
    (pc = "for_trial" /\ irl_scores # <<>>)
        => last_score = truediv(total_irl,
                                weights_sum(method_weights[last_with_service])
                                * Len(selected_methods))

C6_Witness ==
    /\ pc = "for_trial"
    /\ irl_scores # <<>>
    /\ ~has_service(last_selected)
    /\ last_selected \in DOMAIN method_weights
    /\ weights_sum(method_weights[last_selected])
         # weights_sum(method_weights[last_with_service])
    /\ total_irl > 0

is_point(row) ==
    /\ row.cost.min = row.cost.max
    /\ row.maturity.min = row.maturity.max
    /\ row.integration.min = row.integration.max
    /\ row.interoperability.min = row.interoperability.max

(* C7, as claimed: when every range of every selected method is a single   *)
(* point, each sampled value is that point and the returned scores are all *)
(* equal to one another.                                                   *)
C7_Constant ==
    (\A m \in with_service : is_point(services[m])) =>
        /\ pc = "weights" =>
             /\ cost_score = services[method].cost.min
             /\ maturity_score = services[method].maturity.min
             /\ integration_score = services[method].integration.min
             /\ interoperability_score = services[method].interoperability.min
        /\ \A j, k \in 1..Len(irl_scores) :
             j # k => float_eq(irl_scores[j], irl_scores[k])

attribute(row, c) ==
    CASE c = "Maturity" -> row.maturity
      [] c = "Interoperability" -> row.interoperability
      [] c = "Integration" -> row.integration
      [] c = "Cost" -> row.cost

(* Sum over the methods of S of min + max of category c. *)
RECURSIVE sum_min_max(_, _)
sum_min_max(S, c) ==
    IF S = {} THEN 0
    ELSE LET m == CHOOSE x \in S : TRUE
         IN attribute(services[m], c).min + attribute(services[m], c).max
            + sum_min_max(S \ {m}, c)

(* C8, as claimed: each plotted value is the sum of the midpoints divided  *)
(* by the number of selected methods (stated here only for selections in   *)
(* which some method has a row).                                           *)
C8_Original ==
    (pc = "radar_done" /\ with_service # {}) =>
        \A c \in categories :
            values[c] = truediv(sum_min_max(with_service, c),
                                2 * Len(selected_methods))

(* C8, amended: each plotted value is the mean of the midpoints of the     *)
(* selected methods that have a row: their sum divided by their number     *)
(* (0/0, NaN, when none has one).                                          *)
C8_Amended ==
    pc = "radar_done" =>
        \A c \in categories :
            values[c] = truediv(sum_min_max(with_service, c),
                                2 * Cardinality(with_service))

C8_Witness ==
    /\ pc = "radar_done"
    /\ Len(selected_methods) = 2
    /\ Cardinality(with_service) = 1
    /\ isfinite(values["Cost"])

(* C9, as claimed: a selected method without a row is skipped without an   *)
(* error, and the call still returns a score for every trial (every        *)
(* selected method has weights here, so no weights are missing).           *)
C9_SkipNoError ==
    ((\E m \in selection : ~has_service(m))
        /\ selection \subseteq DOMAIN method_weights)
        => /\ pc # "raised"
           /\ pc = "returned" => Len(irl_scores) = n_simulations

min_of(S) == CHOOSE x \in S : \A y \in S : x <= y
max_of(S) == CHOOSE x \in S : \A y \in S : y <= x

lowest_min ==
    min_of({attribute(services[m], c).min : m \in selection, c \in categories})
highest_max ==
    max_of({attribute(services[m], c).max : m \in selection, c \in categories})

(* C10, as claimed: when every selected method has a row and a weight      *)
(* vector with a nonzero sum, every score lies between the smallest        *)
(* attribute minimum and the largest attribute maximum of the selection.   *)
C10_InRange ==
    (/\ selected_methods # <<>>
     /\ with_service = selection
     /\ selection \subseteq DOMAIN method_weights
     /\ \A m \in selection : weights_sum(method_weights[m]) > 0)
        => \A k \in 1..Len(irl_scores) :
               /\ isfinite(irl_scores[k])
               /\ lowest_min * irl_scores[k].den <= irl_scores[k].num
               /\ irl_scores[k].num <= highest_max * irl_scores[k].den

====
